---------------------------- MODULE Spec2Model ----------------------------
(***************************************************************************)
(* A model of the c3media client library (src/c3media): the CCCMediaClient *)
(* object, its HTTP session and every operation on it, one action per      *)
(* method call.  Python strings are sequences of one-character strings, so *)
(* that lower(), startswith(), replace(), rsplit(), split() and the        *)
(* regular expression of extract_recording_id are computed character by    *)
(* character.  The remote server and the transport are the environment:    *)
(* every request draws its response from a small set.                      *)
(***************************************************************************)
EXTENDS Integers, Sequences, FiniteSets, TLC

VARIABLES
    session,   \* "open" | "closed": the requests.Session held by the client
    scope,     \* "none" | "inside" | "exited": position of a `with` block
    exitExc,   \* exc_type handed to __exit__ ("none" while __exit__ has not run)
    pc,        \* "idle" | "returned": whether the caller holds a call's result
    op,        \* name of the method that ran last ("none": no result held)
    arg,       \* its arguments, as they were at the call
    reqs,      \* the HTTP exchanges it issued, in order: method, url, response
    out,       \* how it ended: a returned value or a raised exception
    post,      \* its argument objects, as they are after the call
    prev       \* Some(outcome of the call before) when the last call repeated
               \* that call on the same objects, None otherwise

vars == <<session, scope, exitExc, pc, op, arg, reqs, out, post, prev>>

-----------------------------------------------------------------------------
(* Bounds of the model *)

\* longest recordings list of an event (embedded or fetched)
MaxRecs == 3
\* longest conferences list the server answers
MaxConfs == 2
\* longest events list of a conference
MaxEvents == 2
\* longest free tail appended to a URL prefix
MaxTail == 3

-----------------------------------------------------------------------------
(* Python values *)

None == [tag |-> "none"]
Some(v) == [tag |-> "some", v |-> v]

\* a method returned v
Return(v) == [kind |-> "value", val |-> v]
\* a method raised e
Raise(e) == [kind |-> "error", val |-> e]

\* all sequences over S of length 0..n
SeqUpTo(S, n) == UNION {[1..k -> S] : k \in 0..n}

-----------------------------------------------------------------------------
(* Strings *)

BASE_URL == <<"h","t","t","p","s",":","/","/","a","p","i",".","m","e","d","i","a",".","c","c","c",".","d","e","/","p","u","b","l","i","c">>

UpperChars == <<"A","B","C","D","E","F","G","H","I","J","K","L","M","N","O","P","Q","R","S","T","U","V","W","X","Y","Z">>
LowerChars == <<"a","b","c","d","e","f","g","h","i","j","k","l","m","n","o","p","q","r","s","t","u","v","w","x","y","z">>
DigitChars == {"0","1","2","3","4","5","6","7","8","9"}

\* str.lower() on one character (ASCII letters)
LowerChar(c) ==
    IF \E i \in 1..Len(UpperChars) : UpperChars[i] = c
    THEN LowerChars[CHOOSE i \in 1..Len(UpperChars) : UpperChars[i] = c]
    ELSE c

\* str.lower()
Lower(s) == [i \in 1..Len(s) |-> LowerChar(s[i])]

\* str.startswith(p)
StartsWith(s, p) == Len(s) >= Len(p) /\ SubSeq(s, 1, Len(p)) = p

\* whether p occurs in s at index i
OccursAt(s, p, i) == i + Len(p) - 1 <= Len(s) /\ SubSeq(s, i, i + Len(p) - 1) = p

RECURSIVE ReplaceFrom(_, _, _, _)
ReplaceFrom(s, old, new, i) ==
    IF i > Len(s) THEN <<>>
    ELSE IF OccursAt(s, old, i) THEN new \o ReplaceFrom(s, old, new, i + Len(old))
    ELSE <<s[i]>> \o ReplaceFrom(s, old, new, i + 1)

\* str.replace(old, new) for a non-empty old: every non-overlapping
\* occurrence, left to right
Replace(s, old, new) == ReplaceFrom(s, old, new, 1)

\* the indices of "/" in s
SlashAt(s) == {i \in 1..Len(s) : s[i] = "/"}

Max(S) == CHOOSE x \in S : \A y \in S : y <= x
Min(S) == CHOOSE x \in S : \A y \in S : x <= y

\* s.rsplit("/", 1)[0]
RSplitHead(s) == IF SlashAt(s) = {} THEN s ELSE SubSeq(s, 1, Max(SlashAt(s)) - 1)

\* s.split("/")[-1]
SplitLast(s) == IF SlashAt(s) = {} THEN s ELSE SubSeq(s, Max(SlashAt(s)) + 1, Len(s))

-----------------------------------------------------------------------------
(* utils.py *)

RecordingsLit == <<"/","r","e","c","o","r","d","i","n","g","s","/">>

\* `$` without re.MULTILINE: at the end of the string, or just before a
\* newline that is the last character of the string
AtDollar(s, i) == i = Len(s) + 1 \/ (i = Len(s) /\ s[i] = "\n")

\* the end (exclusive) of the group (\d+) of a match of
\* /recordings/(\d+)$ starting at index i, or 0 when there is none there
MatchEnd(s, i) ==
    LET from == i + Len(RecordingsLit)
        ends == {j \in from + 1..Len(s) + 1 :
                    /\ \A k \in from..j - 1 : s[k] \in DigitChars
                    /\ AtDollar(s, j)}
    IN IF OccursAt(s, RecordingsLit, i) /\ ends # {} THEN Max(ends) ELSE 0

\* re.search(r"/recordings/(\d+)$", recording_url): group(1) of the
\* leftmost match, or None
extract_recording_id(recording_url) ==
    LET starts == {i \in 1..Len(recording_url) : MatchEnd(recording_url, i) # 0}
    IN IF starts = {} THEN None
       ELSE LET i == Min(starts)
            IN Some(SubSeq(recording_url, i + Len(RecordingsLit),
                           MatchEnd(recording_url, i) - 1))

-----------------------------------------------------------------------------
(* The transport and the server *)

\* session.get / session.head raised requests.ConnectionError
ConnectionFailure == [exc |-> TRUE, status |-> 0, body |-> None]
\* the server answered
HttpResp(status, body) == [exc |-> FALSE, status |-> status, body |-> body]

\* statuses for which Response.raise_for_status() raises HTTPError
IsErrorStatus(status) == status >= 400 /\ status < 600

ErrorStatuses == {404, 500}

\* what a GET may bring, when a success carries one of `bodies`
GetResponses(bodies) ==
    {ConnectionFailure}
        \cup {HttpResp(st, None) : st \in ErrorStatuses}
        \cup {HttpResp(200, b) : b \in bodies}

\* the requests.RequestException a failed exchange raises
FailureOf(resp) ==
    IF resp.exc THEN [exc |-> "ConnectionError", status |-> 0]
    ELSE [exc |-> "HTTPError", status |-> resp.status]

Failed(resp) == resp.exc \/ IsErrorStatus(resp.status)

\* one entry of the log of exchanges
Exchange(method, url, resp) == [method |-> method, url |-> url, resp |-> resp]

\* how a method ended: the exchanges it issued, its outcome, and its
\* argument object as the call left it
Done(r, o, p) == [reqs |-> r, out |-> o, post |-> p]

-----------------------------------------------------------------------------
(* client.py: primitive fetches *)

\* session.get(url); response.raise_for_status(); response.json()
make_request(endpoint, resp) ==
    LET url == BASE_URL \o <<"/">> \o endpoint
        log == <<Exchange("GET", url, resp)>>
    IN IF resp.exc THEN Done(log, Raise(FailureOf(resp)), None)
       ELSE IF IsErrorStatus(resp.status) THEN Done(log, Raise(FailureOf(resp)), None)
       ELSE Done(log, Return(resp.body), None)

get_conferences(resp) ==
    LET response == make_request(<<"c","o","n","f","e","r","e","n","c","e","s">>, resp)
    IN IF response.out.kind = "error" THEN response
       ELSE Done(response.reqs, Return(response.out.val.conferences), None)

\* get_conference_by_acronym comparing the acronyms as they are
get_conference_by_acronym_exact(acronym, resp) ==
    LET conferences == get_conferences(resp)
    IN IF conferences.out.kind = "error" THEN conferences
       ELSE LET cs == conferences.out.val
                hits == {i \in 1..Len(cs) : cs[i].acronym = acronym}
            IN Done(conferences.reqs,
                    Return(IF hits = {} THEN None ELSE Some(cs[Min(hits)])),
                    None)

get_conference_by_acronym(acronym, resp) ==
    LET conferences == get_conferences(resp)
    IN IF conferences.out.kind = "error" THEN conferences
       ELSE LET cs == conferences.out.val
                hits == {i \in 1..Len(cs) : Lower(cs[i].acronym) = Lower(acronym)}
            IN Done(conferences.reqs,
                    Return(IF hits = {} THEN None ELSE Some(cs[Min(hits)])),
                    None)

get_conference(conference_id, resp) ==
    make_request(<<"c","o","n","f","e","r","e","n","c","e","s","/">> \o conference_id, resp)

get_event(event_guid, resp) ==
    make_request(<<"e","v","e","n","t","s","/">> \o event_guid, resp)

get_recording(recording_id, resp) ==
    make_request(<<"r","e","c","o","r","d","i","n","g","s","/">> \o recording_id, resp)

get_event_by_guid(guid, resp) ==
    make_request(<<"e","v","e","n","t","s","/">> \o guid, resp)

\* `not recording_id`: None or the empty string
NoId(recording_id) == recording_id = None \/ recording_id.v = <<>>

get_recording_by_url(recording_url, resp) ==
    LET recording_id == extract_recording_id(recording_url)
    IN IF NoId(recording_id) THEN Done(<<>>, Return(None), None)
       ELSE LET recording == get_recording(recording_id.v, resp)
            IN IF recording.out.kind = "error" THEN recording
               ELSE Done(recording.reqs, Return(Some(recording.out.val)), None)

get_conference_id(conference) == conference.acronym

get_conference_events(conference, resp) ==
    LET conference_id == get_conference_id(conference)
        response == make_request(<<"c","o","n","f","e","r","e","n","c","e","s","/">> \o conference_id, resp)
    IN IF response.out.kind = "error" THEN Done(response.reqs, response.out, conference)
       ELSE Done(response.reqs, Return(response.out.val.events), conference)

\* x in l, for a list l
In(x, l) == \E i \in 1..Len(l) : l[i] = x

\* get_events_by_person reading the events the conference record embeds
get_events_by_person_embedded(conference, person, resp) ==
    Done(<<>>,
         Return(SelectSeq(conference.events, LAMBDA event : In(person, event.persons))),
         conference)

get_events_by_person(conference, person, resp) ==
    LET events == get_conference_events(conference, resp)
    IN IF events.out.kind = "error" THEN events
       ELSE Done(events.reqs,
                 Return(SelectSeq(events.out.val,
                                  LAMBDA event : In(person, event.persons))),
                 events.post)

get_events_by_tag(conference, tag, resp) ==
    LET events == get_conference_events(conference, resp)
    IN IF events.out.kind = "error" THEN events
       ELSE Done(events.reqs,
                 Return(SelectSeq(events.out.val,
                                  LAMBDA event : In(tag, event.tags))),
                 events.post)

-----------------------------------------------------------------------------
(* client.py: recordings of an event *)

\* Event.recordings: the key may be missing, hold None, or hold a list
Absent == [tag |-> "absent", items |-> <<>>]
NoneList == [tag |-> "none", items |-> <<>>]
List(l) == [tag |-> "list", items |-> l]

\* bool(event.get("recordings"))
Truthy(recordings) == recordings.tag = "list" /\ recordings.items # <<>>

\* event.get("recordings") or []
OrEmpty(recordings) == IF Truthy(recordings) THEN recordings.items ELSE <<>>

\* get_event_recordings answering a failed hydration with the empty list
get_event_recordings_swallowing(event, resp) ==
    IF Truthy(event.recordings)
    THEN Done(<<>>, Return(OrEmpty(event.recordings)), event)
    ELSE LET full_event == get_event(event.guid, resp)
         IN IF full_event.out.kind = "error"
            THEN Done(full_event.reqs, Return(<<>>), event)
            ELSE Done(full_event.reqs,
                      Return(OrEmpty(full_event.out.val.recordings)), event)

\* get_event_recordings testing for the key instead of for a non-empty list
get_event_recordings_key_test(event, resp) ==
    IF event.recordings.tag = "list"
    THEN Done(<<>>, Return(event.recordings.items), event)
    ELSE LET full_event == make_request(<<"e","v","e","n","t","s","/">> \o event.guid, resp)
         IN IF full_event.out.kind = "error"
            THEN Done(full_event.reqs, full_event.out, event)
            ELSE Done(full_event.reqs,
                      Return(OrEmpty(full_event.out.val.recordings)), event)

\* get_event_recordings keeping the fetched recordings in the event
get_event_recordings_caching(event, resp) ==
    IF Truthy(event.recordings)
    THEN Done(<<>>, Return(OrEmpty(event.recordings)), event)
    ELSE LET full_event == get_event(event.guid, resp)
         IN IF full_event.out.kind = "error"
            THEN Done(full_event.reqs, full_event.out, event)
            ELSE Done(full_event.reqs,
                      Return(OrEmpty(full_event.out.val.recordings)),
                      [event EXCEPT
                          !.recordings = List(OrEmpty(full_event.out.val.recordings))])

get_event_recordings(event, resp) ==
    IF Truthy(event.recordings)
    THEN Done(<<>>, Return(OrEmpty(event.recordings)), event)
    ELSE LET full_event == get_event(event.guid, resp)
         IN IF full_event.out.kind = "error"
            THEN Done(full_event.reqs, full_event.out, event)
            ELSE Done(full_event.reqs,
                      Return(OrEmpty(full_event.out.val.recordings)), event)

get_event_recordings_by_language(event, language, resp) ==
    LET recordings == get_event_recordings(event, resp)
    IN IF recordings.out.kind = "error" THEN recordings
       ELSE Done(recordings.reqs,
                 Return(SelectSeq(recordings.out.val,
                                  LAMBDA r : r.language = language)),
                 recordings.post)

get_event_recordings_by_format(event, mime_type, resp) ==
    LET recordings == get_event_recordings(event, resp)
    IN IF recordings.out.kind = "error" THEN recordings
       ELSE Done(recordings.reqs,
                 Return(SelectSeq(recordings.out.val,
                                  LAMBDA r : r.mime_type = mime_type)),
                 recordings.post)

\* a descending sort that puts x in front of the elements of equal size
InsertBySizeBeforeEqual(t, x) ==
    LET k == Cardinality({i \in 1..Len(t) : t[i].size > x.size})
    IN SubSeq(t, 1, k) \o <<x>> \o SubSeq(t, k + 1, Len(t))

\* one step of a stable descending sort: x goes behind every element of
\* the sorted list t whose size is not smaller
InsertBySize(t, x) ==
    LET k == Cardinality({i \in 1..Len(t) : t[i].size >= x.size})
    IN SubSeq(t, 1, k) \o <<x>> \o SubSeq(t, k + 1, Len(t))

RECURSIVE sorted_by_size_reverse(_)
\* sorted(recordings, key=lambda x: x["size"], reverse=True): stable, so
\* recordings of equal size keep their order
sorted_by_size_reverse(recordings) ==
    IF recordings = <<>> THEN <<>>
    ELSE InsertBySize(
             sorted_by_size_reverse(SubSeq(recordings, 1, Len(recordings) - 1)),
             recordings[Len(recordings)])

get_event_best_recording(event, mime_type, resp) ==
    LET recordings == get_event_recordings_by_format(event, mime_type, resp)
    IN IF recordings.out.kind = "error" THEN recordings
       ELSE IF recordings.out.val = <<>>
            THEN Done(recordings.reqs, Return(None), recordings.post)
            ELSE Done(recordings.reqs,
                      Return(Some(sorted_by_size_reverse(recordings.out.val)[1])),
                      recordings.post)

\* get_event_audio_recording without the preference for audio/opus
get_event_audio_recording_first(event, language, resp) ==
    LET recordings == get_event_recordings_by_language(event, language, resp)
    IN IF recordings.out.kind = "error" THEN recordings
       ELSE LET audio_recordings ==
                    SelectSeq(recordings.out.val,
                              LAMBDA r : StartsWith(r.mime_type, <<"a","u","d","i","o","/">>))
            IN IF audio_recordings = <<>>
               THEN Done(recordings.reqs, Return(None), recordings.post)
               ELSE Done(recordings.reqs, Return(Some(audio_recordings[1])),
                         recordings.post)

get_event_audio_recording(event, language, resp) ==
    LET recordings == get_event_recordings_by_language(event, language, resp)
    IN IF recordings.out.kind = "error" THEN recordings
       ELSE LET audio_recordings ==
                    SelectSeq(recordings.out.val,
                              LAMBDA r : StartsWith(r.mime_type, <<"a","u","d","i","o","/">>))
                opus == SelectSeq(audio_recordings,
                                  LAMBDA r : r.mime_type = <<"a","u","d","i","o","/","o","p","u","s">>)
            IN IF audio_recordings = <<>>
               THEN Done(recordings.reqs, Return(None), recordings.post)
               ELSE Done(recordings.reqs,
                         Return(Some(IF opus # <<>> THEN opus[1]
                                     ELSE audio_recordings[1])),
                         recordings.post)

get_event_recording_by_id(event, recording_id, resp) ==
    LET recordings == get_event_recordings(event, resp)
    IN IF recordings.out.kind = "error" THEN recordings
       ELSE LET rs == recordings.out.val
                hits == {i \in 1..Len(rs) :
                            extract_recording_id(rs[i].url) = Some(recording_id)}
            IN Done(recordings.reqs,
                    Return(IF hits = {} THEN None ELSE Some(rs[Min(hits)])),
                    recordings.post)

-----------------------------------------------------------------------------
(* client.py: subtitles *)

\* constants.py: the keys of COMMON_LANGUAGES, in insertion order
COMMON_LANGUAGES == <<<<"e","n","g">>, <<"d","e","u">>, <<"e","n","g","-","d","e","u">>>>

\* the extensions tried for each language
SubtitleExts == <<<<"s","r","t">>, <<"v","t","t">>>>

Subtitle(language, url, content) ==
    [language |-> language, url |-> url, content |-> content]

\* the subtitle URLs probed for a recording with its language, in the order
\* of the two nested loops
SubtitleCandidates(recording) ==
    LET b1 == Replace(recording.recording_url,
                      <<"/">> \o recording.folder \o <<"/">>, <<"/">>)
        b2 == Replace(b1, <<"c","d","n",".","m","e","d","i","a",".","c","c","c",".","d","e">>, <<"s","t","a","t","i","c",".","m","e","d","i","a",".","c","c","c",".","d","e">>)
        base_url == Replace(b2, <<"/","c","o","n","g","r","e","s","s","/">>, <<"/","m","e","d","i","a","/","c","o","n","g","r","e","s","s","/">>)
        event_guid == SplitLast(recording.event_url)
        n == Len(SubtitleExts)
    IN [k \in 1..Len(COMMON_LANGUAGES) * n |->
          LET lang == COMMON_LANGUAGES[((k - 1) \div n) + 1]
              ext == SubtitleExts[((k - 1) % n) + 1]
          IN [language |-> lang,
              url |-> RSplitHead(base_url) \o <<"/">> \o event_guid \o <<"-">>
                          \o lang \o <<".">> \o ext]]

RECURSIVE probe_loop_aborting(_, _, _, _, _)
\* the probing loop with `break` for `continue` in the except clause
probe_loop_aborting(cands, resps, k, log, subtitles) ==
    IF k > Len(cands) THEN [reqs |-> log, out |-> Return(subtitles)]
    ELSE LET response == resps[k]
             log2 == Append(log, Exchange("HEAD", cands[k].url, response))
         IN IF response.exc
            THEN [reqs |-> log2, out |-> Return(subtitles)]
            ELSE IF response.status = 200
                 THEN probe_loop_aborting(cands, resps, k + 1, log2,
                                          Append(subtitles,
                                                 Subtitle(cands[k].language,
                                                          Some(cands[k].url), None)))
                 ELSE probe_loop_aborting(cands, resps, k + 1, log2, subtitles)

RECURSIVE probe_loop(_, _, _, _, _)
\* the body of the nested loops from candidate k on: session.head, the
\* status test and the except clause; resps[k] is what the k-th probe brings
probe_loop(cands, resps, k, log, subtitles) ==
    IF k > Len(cands) THEN [reqs |-> log, out |-> Return(subtitles)]
    ELSE LET response == resps[k]
             log2 == Append(log, Exchange("HEAD", cands[k].url, response))
         IN IF response.exc
            THEN probe_loop(cands, resps, k + 1, log2, subtitles)
            ELSE IF response.status = 200
                 THEN probe_loop(cands, resps, k + 1, log2,
                                 Append(subtitles,
                                        Subtitle(cands[k].language,
                                                 Some(cands[k].url), None)))
                 ELSE probe_loop(cands, resps, k + 1, log2, subtitles)

\* get_recording_subtitles without the test for an empty recording_url
get_recording_subtitles_unguarded(recording, resps) ==
    LET r == probe_loop(SubtitleCandidates(recording), resps, 1, <<>>, <<>>)
    IN Done(r.reqs, r.out, recording)

get_recording_subtitles(recording, resps) ==
    IF recording.recording_url = <<>>
    THEN Done(<<>>, Return(<<>>), recording)
    ELSE LET r == probe_loop(SubtitleCandidates(recording), resps, 1, <<>>, <<>>)
         IN Done(r.reqs, r.out, recording)

\* bool(subtitle["url"])
HasUrl(subtitle) == subtitle.url # None /\ subtitle.url.v # <<>>

\* get_subtitle_content keeping the fetched text in the subtitle
get_subtitle_content_caching(subtitle, resp) ==
    IF ~HasUrl(subtitle) THEN Done(<<>>, Return(None), subtitle)
    ELSE LET log == <<Exchange("GET", subtitle.url.v, resp)>>
         IN IF resp.exc THEN Done(log, Raise(FailureOf(resp)), subtitle)
            ELSE IF IsErrorStatus(resp.status)
                 THEN Done(log, Raise(FailureOf(resp)), subtitle)
                 ELSE Done(log, Return(Some(resp.body.text)),
                           [subtitle EXCEPT !.content = Some(resp.body.text)])

get_subtitle_content(subtitle, resp) ==
    IF ~HasUrl(subtitle) THEN Done(<<>>, Return(None), subtitle)
    ELSE LET log == <<Exchange("GET", subtitle.url.v, resp)>>
         IN IF resp.exc THEN Done(log, Raise(FailureOf(resp)), subtitle)
            ELSE IF IsErrorStatus(resp.status)
                 THEN Done(log, Raise(FailureOf(resp)), subtitle)
                 ELSE Done(log, Return(Some(resp.body.text)), subtitle)

-----------------------------------------------------------------------------
(* The values the caller and the server draw from *)

\* models.py Recording, with the fields the client reads
Rec(id, mime_type, language, size) ==
    [size |-> size, mime_type |-> mime_type, language |-> language,
     folder |-> <<"h","2","6","4","-","h","d">>,
     recording_url |-> <<"h","t","t","p","s",":","/","/","c","d","n",".","m","e","d","i","a",".","c","c","c",".","d","e","/","c","o","n","g","r","e","s","s","/","2","0","2","4","/","h","2","6","4","-","h","d","/">> \o id \o <<".","m","p","4">>,
     url |-> BASE_URL \o <<"/","r","e","c","o","r","d","i","n","g","s","/">> \o id,
     event_url |-> BASE_URL \o <<"/","e","v","e","n","t","s","/","a","1","b","2">>]

RecPool ==
    {Rec(<<"1","0","1">>, <<"v","i","d","e","o","/","m","p","4">>, <<"e","n","g">>, 100),
     Rec(<<"1","0","2">>, <<"v","i","d","e","o","/","m","p","4">>, <<"e","n","g">>, 500),
     Rec(<<"1","0","3">>, <<"v","i","d","e","o","/","m","p","4">>, <<"d","e","u">>, 500),
     Rec(<<"1","0","4">>, <<"a","u","d","i","o","/","m","p","e","g">>, <<"e","n","g">>, 300),
     Rec(<<"1","0","5">>, <<"a","u","d","i","o","/","o","p","u","s">>, <<"e","n","g">>, 100),
     Rec(<<"1","0","6">>, <<"a","u","d","i","o","/","o","p","u","s">>, <<"e","n","g">>, 500)}

RecordingsValues ==
    {Absent, NoneList} \cup {List(l) : l \in SeqUpTo(RecPool, MaxRecs)}

\* models.py Event (total=False: `recordings` may be missing)
Event(guid, recordings) == [guid |-> guid, recordings |-> recordings]

EventGuids == {<<"a","1","b","2">>}

\* events a caller may hold, and events the detail endpoint may answer
Events == {Event(g, r) : g \in EventGuids, r \in RecordingsValues}

LanguageArgs == {<<"e","n","g">>, <<"d","e","u">>}
MimeTypeArgs == {<<"v","i","d","e","o","/","m","p","4">>, <<"a","u","d","i","o","/","o","p","u","s">>, <<"a","u","d","i","o","/","m","p","e","g">>}
RecordingIdArgs == {<<"1","0","1">>, <<"1","0","5">>, <<"9","9","9">>}

\* models.py Conference as the list endpoint answers it
Conf(acronym, title) == [acronym |-> acronym, title |-> title]

ConfPool == {Conf(<<"3","8","c","3">>, <<"A">>), Conf(<<"3","8","C","3">>, <<"B">>), Conf(<<"3","7","c","3">>, <<"C">>)}

AcronymArgs == {<<"3","8","c","3">>, <<"3","8","C","3">>, <<"3","7","C","3">>, <<"c","a","m","p">>}

\* an event as a conference embeds it (list view: no recordings)
ListEvent(guid, persons, tags) ==
    [guid |-> guid, persons |-> persons, tags |-> tags, recordings |-> Absent]

ListEvents ==
    {ListEvent(<<"a","1","b","2">>, <<<<"A","d","a">>>>, <<<<"3","8","c","3">>, <<"S","e","c","u","r","i","t","y">>>>),
     ListEvent(<<"c","3","d","4">>, <<<<"a","d","a">>, <<"B","o","b">>>>, <<<<"s","e","c","u","r","i","t","y">>>>),
     ListEvent(<<"e","5","f","6">>, <<>>, <<<<"3","8","c","3">>>>)}

PersonArgs == {<<"A","d","a">>, <<"B","o","b">>, <<"A","d">>}
TagArgs == {<<"3","8","c","3">>, <<"S","e","c","u","r","i","t","y">>, <<"S","e","c">>}

\* models.py Conference as the detail endpoint answers it
ConfDetail(acronym, events) ==
    [acronym |-> acronym, title |-> <<"A">>, events |-> events]

ConfDetails == {ConfDetail(<<"3","8","c","3">>, es) : es \in SeqUpTo(ListEvents, MaxEvents)}

\* conferences a caller may hold
ConfArgs ==
    {ConfDetail(a, es) : a \in {<<"3","8","c","3">>, <<"3","7","c","3">>},
                         es \in SeqUpTo(ListEvents, MaxEvents)}

\* recordings whose subtitles are looked for
SubtitleRecs ==
    {Rec(<<"1","0","1">>, <<"v","i","d","e","o","/","m","p","4">>, <<"e","n","g">>, 100),
     [Rec(<<"1","0","2">>, <<"v","i","d","e","o","/","m","p","4">>, <<"e","n","g">>, 500) EXCEPT !.recording_url = <<>>],
     [Rec(<<"1","0","3">>, <<"v","i","d","e","o","/","m","p","4">>, <<"d","e","u">>, 500) EXCEPT
         !.recording_url = <<"h","t","t","p","s",":","/","/","e","x","a","m","p","l","e",".","o","r","g","/","v",".","m","p","4">>,
         !.folder = <<"w","e","b","m">>,
         !.event_url = <<"c","3","d","4">>]}

\* what a HEAD probe may bring
HeadResponses == {ConnectionFailure, HttpResp(200, None), HttpResp(404, None)}

SubtitleArgs ==
    {Subtitle(<<"e","n","g">>, u, None) :
        u \in {None, Some(<<>>), Some(<<"h","t","t","p","s",":","/","/","s","t","a","t","i","c",".","m","e","d","i","a",".","c","c","c",".","d","e","/","a","1","b","2","-","e","n","g",".","s","r","t">>)}}

TextBodies == {[text |-> <<"W","E","B","V","T","T">>], [text |-> <<>>]}

RecordingUrlArgs ==
    {BASE_URL \o <<"/","r","e","c","o","r","d","i","n","g","s","/","1","0","1">>, BASE_URL \o <<"/","r","e","c","o","r","d","i","n","g","s","/">>,
     BASE_URL \o <<"/","e","v","e","n","t","s","/","1","0","1">>, BASE_URL \o <<"/","r","e","c","o","r","d","i","n","g","s","/","1","0","1","/">>}

TailChars == {"1", "9", "/", "\n", "x"}

UrlPrefixes == {<<>>, <<"/","e","v","e","n","t","s","/">>, <<"/","r","e","c","o","r","d","i","n","g","s","/">>, BASE_URL \o <<"/","r","e","c","o","r","d","i","n","g","s","/">>}

UrlArgs == {p \o t : p \in UrlPrefixes, t \in SeqUpTo(TailChars, MaxTail)}

-----------------------------------------------------------------------------
(* The client object and the calls made on it *)

\* no call is in progress and no result is held
Blank ==
    /\ pc' = "idle"
    /\ op' = "none"
    /\ arg' = None
    /\ reqs' = <<>>
    /\ out' = Return(None)
    /\ post' = None
    /\ prev' = None

\* CCCMediaClient(): __init__ opens the session
Init ==
    /\ session = "open"
    /\ scope = "none"
    /\ exitExc = "none"
    /\ pc = "idle"
    /\ op = "none"
    /\ arg = None
    /\ reqs = <<>>
    /\ out = Return(None)
    /\ post = None
    /\ prev = None

\* a method that leaves the client's fields alone ran with arguments a and
\* ended as r; the caller now holds its result or its exception
Call(name, a, r) ==
    /\ pc' = "returned"
    /\ op' = name
    /\ arg' = a
    /\ reqs' = r.reqs
    /\ out' = r.out
    /\ post' = r.post
    /\ prev' = None
    /\ UNCHANGED <<session, scope, exitExc>>

\* the caller uses the client during its lifetime: after construction and
\* before the session is released
InUse == session = "open"

\* CCCMediaClient.close
close ==
    /\ session' = "closed"

\* CCCMediaClient.__enter__: returns self
enter ==
    /\ UNCHANGED session

\* __exit__ releasing the session only when the block ended normally
exit_on_success(exc_type) ==
    /\ IF exc_type = "none" THEN close ELSE UNCHANGED session

\* CCCMediaClient.__exit__(exc_type, exc_val, exc_tb): calls close() and
\* returns None, so the exception, if any, goes on to the caller
exit(exc_type) ==
    /\ close

\* the caller is done with the result of the last call (or has handled
\* its exception) and goes on
Resume ==
    /\ pc = "returned"
    /\ Blank
    /\ UNCHANGED <<session, scope, exitExc>>

\* client.close() called by the caller
Close ==
    /\ close
    /\ Blank
    /\ UNCHANGED <<scope, exitExc>>

\* `with client:` begins
Enter ==
    /\ scope = "none"
    /\ InUse
    /\ enter
    /\ scope' = "inside"
    /\ Blank
    /\ UNCHANGED exitExc

\* the `with` block ends: normally, or by the exception that the last call
\* in it raised and that the block did not handle
Exit ==
    /\ scope = "inside"
    /\ \E exc_type \in {"none"} \cup
              (IF pc = "returned" /\ out.kind = "error" THEN {out.val.exc} ELSE {}) :
           /\ exit(exc_type)
           /\ exitExc' = exc_type
    /\ scope' = "exited"
    /\ Blank

GetConferences ==
    /\ pc = "idle"
    /\ InUse
    /\ \E resp \in GetResponses(
                       {[conferences |-> cs] : cs \in SeqUpTo(ConfPool, MaxConfs)}) :
           Call("get_conferences", None, get_conferences(resp))

GetConferenceByAcronym ==
    /\ pc = "idle"
    /\ InUse
    /\ \E acronym \in AcronymArgs,
          resp \in GetResponses(
                       {[conferences |-> cs] : cs \in SeqUpTo(ConfPool, MaxConfs)}) :
           Call("get_conference_by_acronym", [acronym |-> acronym],
                get_conference_by_acronym(acronym, resp))

GetConference ==
    /\ pc = "idle"
    /\ InUse
    /\ \E id \in {<<"3","8","c","3">>}, resp \in GetResponses(ConfDetails) :
           Call("get_conference", [conference_id |-> id], get_conference(id, resp))

GetEvent ==
    /\ pc = "idle"
    /\ InUse
    /\ \E guid \in EventGuids :
       \E resp \in GetResponses({e \in Events : e.guid = guid}) :
           Call("get_event", [event_guid |-> guid], get_event(guid, resp))

GetRecording ==
    /\ pc = "idle"
    /\ InUse
    /\ \E id \in RecordingIdArgs, resp \in GetResponses(RecPool) :
           Call("get_recording", [recording_id |-> id], get_recording(id, resp))

GetEventByGuid ==
    /\ pc = "idle"
    /\ InUse
    /\ \E guid \in EventGuids :
       \E resp \in GetResponses({e \in Events : e.guid = guid}) :
           Call("get_event_by_guid", [guid |-> guid], get_event_by_guid(guid, resp))

\* the responses the fetch of a recording by URL may bring; a URL without a
\* recording id is not fetched, so one response stands for all
RecordingResponses(recording_url) ==
    IF NoId(extract_recording_id(recording_url)) THEN {ConnectionFailure}
    ELSE GetResponses(RecPool)

GetRecordingByUrl ==
    /\ pc = "idle"
    /\ InUse
    /\ \E recording_url \in RecordingUrlArgs :
       \E resp \in RecordingResponses(recording_url) :
           Call("get_recording_by_url", [recording_url |-> recording_url],
                get_recording_by_url(recording_url, resp))

GetConferenceEvents ==
    /\ pc = "idle"
    /\ InUse
    /\ \E conference \in ConfArgs, resp \in GetResponses(ConfDetails) :
           Call("get_conference_events", [conference |-> conference],
                get_conference_events(conference, resp))

GetEventsByPerson ==
    /\ pc = "idle"
    /\ InUse
    /\ \E conference \in ConfArgs, person \in PersonArgs,
          resp \in GetResponses(ConfDetails) :
           Call("get_events_by_person",
                [conference |-> conference, person |-> person],
                get_events_by_person(conference, person, resp))

GetEventsByTag ==
    /\ pc = "idle"
    /\ InUse
    /\ \E conference \in ConfArgs, tag \in TagArgs,
          resp \in GetResponses(ConfDetails) :
           Call("get_events_by_tag",
                [conference |-> conference, tag |-> tag],
                get_events_by_tag(conference, tag, resp))

\* the responses the detail fetch of an event may bring; an event that
\* carries recordings is not fetched, so one response stands for all
HydrationResponses(event) ==
    IF Truthy(event.recordings) THEN {ConnectionFailure}
    ELSE GetResponses({e \in Events : e.guid = event.guid})

GetEventRecordings ==
    /\ pc = "idle"
    /\ InUse
    /\ \E event \in Events :
       \E resp \in HydrationResponses(event) :
           Call("get_event_recordings", [event |-> event],
                get_event_recordings(event, resp))

GetEventRecordingsByLanguage ==
    /\ pc = "idle"
    /\ InUse
    /\ \E event \in Events, language \in LanguageArgs :
       \E resp \in HydrationResponses(event) :
           Call("get_event_recordings_by_language",
                [event |-> event, language |-> language],
                get_event_recordings_by_language(event, language, resp))

GetEventRecordingsByFormat ==
    /\ pc = "idle"
    /\ InUse
    /\ \E event \in Events, mime_type \in MimeTypeArgs :
       \E resp \in HydrationResponses(event) :
           Call("get_event_recordings_by_format",
                [event |-> event, mime_type |-> mime_type],
                get_event_recordings_by_format(event, mime_type, resp))

GetEventBestRecording ==
    /\ pc = "idle"
    /\ InUse
    /\ \E event \in Events, mime_type \in MimeTypeArgs :
       \E resp \in HydrationResponses(event) :
           Call("get_event_best_recording",
                [event |-> event, mime_type |-> mime_type],
                get_event_best_recording(event, mime_type, resp))

GetEventAudioRecording ==
    /\ pc = "idle"
    /\ InUse
    /\ \E event \in Events, language \in LanguageArgs :
       \E resp \in HydrationResponses(event) :
           Call("get_event_audio_recording",
                [event |-> event, language |-> language],
                get_event_audio_recording(event, language, resp))

GetEventRecordingById ==
    /\ pc = "idle"
    /\ InUse
    /\ \E event \in Events, recording_id \in RecordingIdArgs :
       \E resp \in HydrationResponses(event) :
           Call("get_event_recording_by_id",
                [event |-> event, recording_id |-> recording_id],
                get_event_recording_by_id(event, recording_id, resp))

\* the recordings method `name` on an event, with the other argument of
\* the call a
RecordingsMethod(name, event, a, resp) ==
    CASE name = "get_event_recordings" ->
             get_event_recordings(event, resp)
      [] name = "get_event_recordings_by_language" ->
             get_event_recordings_by_language(event, a.language, resp)
      [] name = "get_event_recordings_by_format" ->
             get_event_recordings_by_format(event, a.mime_type, resp)
      [] name = "get_event_best_recording" ->
             get_event_best_recording(event, a.mime_type, resp)
      [] name = "get_event_audio_recording" ->
             get_event_audio_recording(event, a.language, resp)
      [] name = "get_event_recording_by_id" ->
             get_event_recording_by_id(event, a.recording_id, resp)

RecordingsMethods ==
    {"get_event_recordings", "get_event_recordings_by_language",
     "get_event_recordings_by_format", "get_event_best_recording",
     "get_event_audio_recording", "get_event_recording_by_id"}

\* the caller calls the same recordings method again, with the same
\* arguments and on the same event object as the call before left it; the
\* server is unchanged, so a fetch brings what it brought before
Repeat ==
    /\ pc = "returned"
    /\ InUse
    /\ op \in RecordingsMethods
    /\ prev = None
    /\ \E resp \in (IF reqs = <<>> THEN HydrationResponses(post)
                     ELSE {reqs[1].resp}) :
           LET r == RecordingsMethod(op, post, arg, resp)
           IN /\ arg' = [arg EXCEPT !.event = post]
              /\ reqs' = r.reqs
              /\ out' = r.out
              /\ post' = r.post
              /\ prev' = Some(out)
    /\ UNCHANGED <<session, scope, exitExc, pc, op>>

GetRecordingSubtitles ==
    /\ pc = "idle"
    /\ InUse
    /\ \E recording \in SubtitleRecs :
       \E resps \in [1..Len(SubtitleCandidates(recording)) -> HeadResponses] :
           Call("get_recording_subtitles", [recording |-> recording],
                get_recording_subtitles(recording, resps))

GetSubtitleContent ==
    /\ pc = "idle"
    /\ InUse
    /\ \E subtitle \in SubtitleArgs, resp \in GetResponses(TextBodies) :
           Call("get_subtitle_content", [subtitle |-> subtitle],
                get_subtitle_content(subtitle, resp))

\* utils.extract_recording_id, a module-level function
ExtractRecordingId ==
    /\ pc = "idle"
    /\ \E url \in UrlArgs :
           Call("extract_recording_id", [recording_url |-> url],
                Done(<<>>, Return(extract_recording_id(url)), None))

Next ==
    \/ Resume
    \/ Repeat
    \/ Enter
    \/ Exit
    \/ Close
    \/ GetConferences
    \/ GetConferenceByAcronym
    \/ GetConference
    \/ GetEvent
    \/ GetRecording
    \/ GetEventByGuid
    \/ GetRecordingByUrl
    \/ GetConferenceEvents
    \/ GetEventsByPerson
    \/ GetEventsByTag
    \/ GetEventRecordings
    \/ GetEventRecordingsByLanguage
    \/ GetEventRecordingsByFormat
    \/ GetEventBestRecording
    \/ GetEventAudioRecording
    \/ GetEventRecordingById
    \/ GetRecordingSubtitles
    \/ GetSubtitleContent
    \/ ExtractRecordingId

Spec == Init /\ [][Next]_vars

-----------------------------------------------------------------------------
(* Properties *)

\* the recordings the event of the last call has after hydration, when the
\* hydration fetch (if any) succeeded
Hydrated ==
    IF Truthy(arg.event.recordings) THEN arg.event.recordings.items
    ELSE LET fetched == reqs[1].resp.body.recordings
         IN IF fetched.tag = "list" THEN fetched.items ELSE <<>>

\* C1: get_event_recordings issues no request and returns the embedded
\* list when the event carries a non-empty recordings list; when the field
\* is absent, None or the empty list it issues exactly one GET of
\* events/<guid> and, if that succeeds, returns the fetched event's
\* recordings, or the empty list if they are absent or None.
C1_HydrationRule ==
    op = "get_event_recordings" =>
        LET r == arg.event.recordings
        IN IF r.tag = "list" /\ Len(r.items) > 0
           THEN /\ reqs = <<>>
                /\ out.kind = "value"
                /\ out.val = r.items
           ELSE /\ Len(reqs) = 1
                /\ reqs[1].method = "GET"
                /\ reqs[1].url = BASE_URL \o <<"/","e","v","e","n","t","s","/">> \o arg.event.guid
                /\ ~Failed(reqs[1].resp) =>
                       /\ out.kind = "value"
                       /\ out.val = Hydrated

\* an event with an embedded empty list was hydrated by one fetch that
\* brought recordings
C1_Witness ==
    /\ op = "get_event_recordings"
    /\ arg.event.recordings = List(<<>>)
    /\ Len(reqs) = 1
    /\ out.kind = "value"
    /\ Len(out.val) > 0

\* C2: get_event_best_recording returns None when no hydrated recording
\* has the mime type; otherwise the recording of that mime type that is
\* largest, and among the largest the one that comes first in the list.
C2_BestRecording ==
    (op = "get_event_best_recording" /\ out.kind = "value") =>
        LET h == Hydrated
            M == {i \in 1..Len(h) : h[i].mime_type = arg.mime_type}
        IN IF M = {} THEN out.val = None
           ELSE \E i \in M :
                   /\ out.val = Some(h[i])
                   /\ \A j \in M : h[j].size <= h[i].size
                   /\ \A j \in M : j < i => h[j].size < h[i].size

\* two different recordings of the requested mime type share the largest
\* size
C2_Witness ==
    /\ op = "get_event_best_recording"
    /\ out.kind = "value"
    /\ out.val # None
    /\ \E i, j \in 1..Len(Hydrated) :
          /\ i < j
          /\ Hydrated[i] = out.val.v
          /\ Hydrated[j].mime_type = arg.mime_type
          /\ Hydrated[j].size = Hydrated[i].size
          /\ Hydrated[j] # Hydrated[i]

\* C3: get_event_audio_recording looks only at recordings of the given
\* language whose mime type starts with audio/; it returns the first of
\* them that is audio/opus if there is one, otherwise the first of them,
\* and None when there is none.
C3_AudioRecording ==
    (op = "get_event_audio_recording" /\ out.kind = "value") =>
        LET h == Hydrated
            A == {i \in 1..Len(h) : /\ h[i].language = arg.language
                                    /\ Len(h[i].mime_type) >= 6
                                    /\ SubSeq(h[i].mime_type, 1, 6) = <<"a","u","d","i","o","/">>}
            O == {i \in A : h[i].mime_type = <<"a","u","d","i","o","/","o","p","u","s">>}
        IN IF A = {} THEN out.val = None
           ELSE IF O # {} THEN out.val = Some(h[Min(O)])
           ELSE out.val = Some(h[Min(A)])

\* an opus recording was returned although another audio recording of the
\* language comes before it
C3_Witness ==
    /\ op = "get_event_audio_recording"
    /\ out.kind = "value"
    /\ out.val # None
    /\ out.val.v.mime_type = <<"a","u","d","i","o","/","o","p","u","s">>
    /\ \E i \in 1..Len(Hydrated) :
          /\ Hydrated[i].language = arg.language
          /\ Hydrated[i].mime_type = <<"a","u","d","i","o","/","m","p","e","g">>
          /\ \A j \in 1..i : Hydrated[j] # out.val.v

\* the probes of the last call that were answered 200
Hits == {k \in 1..Len(reqs) : ~reqs[k].resp.exc /\ reqs[k].resp.status = 200}

\* the n-th smallest element of a set of numbers
Nth(S, n) == CHOOSE k \in S : Cardinality({j \in S : j < k}) = n - 1

\* C4: for a recording with a non-empty recording_url,
\* get_recording_subtitles issues one HEAD probe for every (language,
\* extension) pair, each to a URL of its own, whatever the earlier probes
\* brought, and never raises; it returns exactly the candidates answered
\* 200, each once, with content None, in (language, extension) order.
C4_ProbeAll ==
    (op = "get_recording_subtitles" /\ arg.recording.recording_url # <<>>) =>
        LET n == Len(COMMON_LANGUAGES) * Len(SubtitleExts)
            lang(k) == COMMON_LANGUAGES[((k - 1) \div Len(SubtitleExts)) + 1]
            ext(k) == SubtitleExts[((k - 1) % Len(SubtitleExts)) + 1]
            suffix(k) == <<"-">> \o lang(k) \o <<".">> \o ext(k)
        IN /\ Len(reqs) = n
           /\ \A k \in 1..n :
                 /\ reqs[k].method = "HEAD"
                 /\ Len(reqs[k].url) >= Len(suffix(k))
                 /\ SubSeq(reqs[k].url, Len(reqs[k].url) - Len(suffix(k)) + 1,
                           Len(reqs[k].url)) = suffix(k)
           /\ \A j, k \in 1..n : j # k => reqs[j].url # reqs[k].url
           /\ out.kind = "value"
           /\ Len(out.val) = Cardinality(Hits)
           /\ \A i \in 1..Len(out.val) :
                 out.val[i] = Subtitle(lang(Nth(Hits, i)),
                                       Some(reqs[Nth(Hits, i)].url), None)

\* the first probe failed in transport, a later one failed by status and
\* two still later ones were answered 200
C4_Witness ==
    /\ op = "get_recording_subtitles"
    /\ arg.recording.recording_url # <<>>
    /\ reqs[1].resp.exc
    /\ reqs[2].resp.status = 404
    /\ out.kind = "value"
    /\ Len(out.val) = 2
    /\ out.val[1].language = <<"d","e","u">>
    /\ out.val[2].language = <<"e","n","g","-","d","e","u">>

\* C5: get_recording_subtitles on a recording whose recording_url is the
\* empty string returns the empty list and issues no request.
C5_EmptyUrl ==
    (op = "get_recording_subtitles" /\ arg.recording.recording_url = <<>>) =>
        /\ reqs = <<>>
        /\ out.kind = "value"
        /\ out.val = <<>>

\* get_recording_subtitles ran on a recording with an empty recording_url
C5_Witness ==
    /\ op = "get_recording_subtitles"
    /\ arg.recording.recording_url = <<>>
    /\ pc = "returned"

\* C6: once the `with` block of a client has been left, the session that
\* was opened at construction is closed, whether the block ended normally
\* or by the exception of a failed operation.
C6_ScopedRelease ==
    scope = "exited" => session = "closed"

\* the `with` block was left by the exception of a failed request
C6_Witness ==
    /\ scope = "exited"
    /\ exitExc = "HTTPError"
    /\ session = "closed"

PrimitiveFetches ==
    {"get_conferences", "get_conference", "get_event", "get_recording",
     "get_conference_events"}

DerivedFromRecordings ==
    {"get_event_recordings", "get_event_recordings_by_language",
     "get_event_recordings_by_format", "get_event_best_recording",
     "get_event_audio_recording", "get_event_recording_by_id"}

\* C7: a primitive fetch issues exactly one request, and when that request
\* fails in transport or by status the fetch raises that failure; when the
\* hydration fetch of a recordings method fails, the method raises that
\* failure after that one request instead of returning a value.
C7_NoRetryNoFallback ==
    /\ op \in PrimitiveFetches =>
          /\ Len(reqs) = 1
          /\ reqs[1].method = "GET"
          /\ Failed(reqs[1].resp) =>
                 /\ out.kind = "error"
                 /\ out.val = FailureOf(reqs[1].resp)
          /\ ~Failed(reqs[1].resp) => out.kind = "value"
    /\ op \in DerivedFromRecordings =>
          /\ Len(reqs) <= 1
          /\ (Len(reqs) = 1 /\ Failed(reqs[1].resp)) =>
                 /\ out.kind = "error"
                 /\ out.val = FailureOf(reqs[1].resp)

\* the hydration fetch of get_event_best_recording failed in transport
C7_Witness ==
    /\ op = "get_event_best_recording"
    /\ Len(reqs) = 1
    /\ reqs[1].resp.exc
    /\ out.kind = "error"
    /\ out.val.exc = "ConnectionError"

\* equality of two strings up to the case of their letters
SameIgnoringCase(a, b) ==
    /\ Len(a) = Len(b)
    /\ \A i \in 1..Len(a) : LowerChar(a[i]) = LowerChar(b[i])

\* C8: get_conference_by_acronym issues one GET of the conferences
\* endpoint and, if it succeeds, returns the first conference of the list
\* whose acronym equals the requested one up to case, or None when there
\* is none.
C8_AcronymIgnoresCase ==
    op = "get_conference_by_acronym" =>
        /\ Len(reqs) = 1
        /\ reqs[1].method = "GET"
        /\ reqs[1].url = BASE_URL \o <<"/","c","o","n","f","e","r","e","n","c","e","s">>
        /\ ~Failed(reqs[1].resp) =>
              LET cs == reqs[1].resp.body.conferences
                  H == {i \in 1..Len(cs) : SameIgnoringCase(cs[i].acronym, arg.acronym)}
              IN /\ out.kind = "value"
                 /\ IF H = {} THEN out.val = None
                    ELSE out.val = Some(cs[Min(H)])

\* 38C3 was asked for and the stored 38c3 was returned
C8_Witness ==
    /\ op = "get_conference_by_acronym"
    /\ arg.acronym = <<"3","8","C","3">>
    /\ out.kind = "value"
    /\ out.val # None
    /\ out.val.v.acronym = <<"3","8","c","3">>

\* the length of the longest run of digits that ends the string
TrailingDigits(u) ==
    Max({d \in 0..Len(u) : \A k \in Len(u) - d + 1..Len(u) : u[k] \in DigitChars})

C11_ContentFailureSwallowed ==
    (/\ op = "get_subtitle_content"
     /\ Len(reqs) = 1
     /\ Failed(reqs[1].resp)) =>
        /\ out.kind = "value"
        /\ out.val = None

\* C12: get_recording_by_url returns None whenever no recording is found
\* for the URL: without a request when the URL does not end in
\* /recordings/<digits>, and when the server answers 404 for the recording;
\* get_event_by_guid returns None when the server answers 404 for the guid.
C12_NotFoundIsAbsent ==
    /\ op = "get_recording_by_url" =>
          LET u == arg.recording_url
              d == TrailingDigits(u)
              lit == <<"/","r","e","c","o","r","d","i","n","g","s","/">>
              matches == /\ d >= 1
                         /\ Len(u) - d >= Len(lit)
                         /\ SubSeq(u, Len(u) - d - Len(lit) + 1, Len(u) - d) = lit
          IN /\ ~matches => (reqs = <<>> /\ out.kind = "value" /\ out.val = None)
             /\ (Len(reqs) = 1 /\ ~reqs[1].resp.exc /\ reqs[1].resp.status = 404) =>
                    (out.kind = "value" /\ out.val = None)
    /\ op = "get_event_by_guid" =>
          ((~reqs[1].resp.exc /\ reqs[1].resp.status = 404) =>
               (out.kind = "value" /\ out.val = None))

\* C13: no recordings method changes the event it is given or the event's
\* recordings list, and a second call of the method with the same
\* arguments on the same event, against an unchanged server, ends as the
\* first did.
C13_Idempotent ==
    op \in RecordingsMethods =>
        /\ post = arg.event
        /\ prev # None =>
              /\ out.kind = prev.v.kind
              /\ out = prev.v

\* get_event_best_recording was repeated on an event that needed hydration
\* and whose largest recording is not the first of its mime type
C13_Witness ==
    /\ op = "get_event_best_recording"
    /\ prev # None
    /\ Len(reqs) = 1
    /\ out.kind = "value"
    /\ out.val # None
    /\ \E i \in 1..Len(Hydrated) :
          /\ Hydrated[i].mime_type = arg.mime_type
          /\ Hydrated[i].size < out.val.v.size
          /\ \A j \in 1..i : Hydrated[j] # out.val.v

\* the fetched events of the last call that the call had to keep
Kept ==
    LET es == reqs[1].resp.body.events
        key == IF op = "get_events_by_person" THEN arg.person ELSE arg.tag
        names(e) == IF op = "get_events_by_person" THEN e.persons ELSE e.tags
    IN {i \in 1..Len(es) : \E k \in 1..Len(names(es[i])) : names(es[i])[k] = key}

\* C14: get_events_by_person and get_events_by_tag each issue exactly one
\* GET, of conferences/<acronym of the conference passed>, and if it
\* succeeds return the fetched events whose persons (tags) list holds the
\* given string exactly, in the fetched order, whatever events the passed
\* conference embeds; a recordings method other than get_event_recordings
\* issues at most one request, the GET of events/<guid>.
C14_NoExtraRequests ==
    /\ op \in {"get_events_by_person", "get_events_by_tag"} =>
          /\ Len(reqs) = 1
          /\ reqs[1].method = "GET"
          /\ reqs[1].url = BASE_URL \o <<"/","c","o","n","f","e","r","e","n","c","e","s","/">> \o arg.conference.acronym
          /\ ~Failed(reqs[1].resp) =>
                 /\ out.kind = "value"
                 /\ Len(out.val) = Cardinality(Kept)
                 /\ \A i \in 1..Len(out.val) :
                       out.val[i] = reqs[1].resp.body.events[Nth(Kept, i)]
    /\ op \in RecordingsMethods \ {"get_event_recordings"} =>
          /\ Len(reqs) <= 1
          /\ Len(reqs) = 1 =>
                 /\ reqs[1].method = "GET"
                 /\ reqs[1].url = BASE_URL \o <<"/","e","v","e","n","t","s","/">> \o arg.event.guid

\* the conference passed embeds an event of Bob, the fetched conference
\* holds none of Bob but one of ada and one of Ada, and asking for Ada
\* brought only the latter
C14_Witness ==
    /\ op = "get_events_by_person"
    /\ arg.person = <<"A","d","a">>
    /\ arg.conference.acronym = <<"3","7","c","3">>
    /\ Len(arg.conference.events) = 1
    /\ arg.conference.events[1].guid = <<"c","3","d","4">>
    /\ out.kind = "value"
    /\ Len(reqs[1].resp.body.events) = 2
    /\ reqs[1].resp.body.events[1].guid = <<"c","3","d","4">>
    /\ Len(out.val) = 1
    /\ out.val[1].guid = <<"a","1","b","2">>

=============================================================================
